---- MODULE Spec2Model ----
(***************************************************************************)
(* csv-watcher: a directory watcher that converts CSV files to JSON.       *)
(* The model covers the event sources (watchdog handler, polling watcher,  *)
(* startup scan), the Debouncer with its threading.Timer objects, the      *)
(* Converter's work queue and worker thread, stability detection, output   *)
(* naming and the temporary-file / os.replace publication.                 *)
(*                                                                         *)
(* File names are sequences of one-character strings so that the name      *)
(* predicates and the pathlib conversions are computed, not assumed.       *)
(***************************************************************************)
EXTENDS Integers, Sequences, FiniteSets, TLC

(***************************************************************************)
(* Bounds of the model                                                     *)
(***************************************************************************)
\* debounce delay in clock ticks (cfg.debounce_sec, in model time units)
Delay == 2
\* the clock stops advancing after this many ticks
MaxTime == 5
\* writes the environment makes to the watched files in the debouncer runs
DebounceWrites == 3
\* writes and deletions it makes in the runs with the polling thread
ConvertWrites == 2
\* writes and deletions it makes in the runs of the startup scan's jobs
SourceEdits == 1
\* writes it makes while one file is polled for stability
StabilityWrites == 6
\* writes it makes in the runs over the full set of file names
FilterWrites == 1
\* deletions it makes in the runs with shutdown
ShutdownDeletes == 1
\* writes it makes in the runs of all threads of the watchdog configuration
OrderWrites == 1
\* writes it makes in the runs without the startup scan
ExistingWrites == 1
\* largest file size (in rows) the environment writes
MaxSize == 1
\* number of directory scans of the polling watcher
MaxScans == 1

(***************************************************************************)
(* Program constants                                                       *)
(***************************************************************************)
\* _wait_stable(path, window=0.6, checks=3)
Checks == 3

(***************************************************************************)
(* Strings as sequences of characters                                      *)
(***************************************************************************)
\* str.lower() of one character: the 26 capitals of ASCII, the alphabet of
\* every name of this model
Lower(c) ==
  CASE c = "A" -> "a" [] c = "B" -> "b" [] c = "C" -> "c" [] c = "D" -> "d"
    [] c = "E" -> "e" [] c = "F" -> "f" [] c = "G" -> "g" [] c = "H" -> "h"
    [] c = "I" -> "i" [] c = "J" -> "j" [] c = "K" -> "k" [] c = "L" -> "l"
    [] c = "M" -> "m" [] c = "N" -> "n" [] c = "O" -> "o" [] c = "P" -> "p"
    [] c = "Q" -> "q" [] c = "R" -> "r" [] c = "S" -> "s" [] c = "T" -> "t"
    [] c = "U" -> "u" [] c = "V" -> "v" [] c = "W" -> "w" [] c = "X" -> "x"
    [] c = "Y" -> "y" [] c = "Z" -> "z" [] OTHER -> c

LowerStr(s) == [i \in 1..Len(s) |-> Lower(s[i])]

StartsWith(s, p) == Len(s) >= Len(p) /\ SubSeq(s, 1, Len(p)) = p

EndsWith(s, x) == Len(s) >= Len(x) /\ SubSeq(s, Len(s) - Len(x) + 1, Len(s)) = x

\* str.rfind("."): the last index of a dot, 0 when there is none
RFindDot(s) ==
  IF \E i \in 1..Len(s) : s[i] = "."
  THEN CHOOSE i \in 1..Len(s) : s[i] = "." /\ \A j \in (i+1)..Len(s) : s[j] # "."
  ELSE 0

\* PurePath.suffix: the part from the last dot, unless the dot is the first
\* or the last character of the name
Suffix(name) ==
  LET i == RFindDot(name)
  IN IF 1 < i /\ i < Len(name) THEN SubSeq(name, i, Len(name)) ELSE <<>>

\* PurePath.stem
Stem(name) ==
  LET i == RFindDot(name)
  IN IF 1 < i /\ i < Len(name) THEN SubSeq(name, 1, i - 1) ELSE name

\* PurePath.with_suffix(suffix).name
WithSuffix(name, suffix) ==
  SubSeq(name, 1, Len(name) - Len(Suffix(name))) \o suffix

Digit(d) ==
  CASE d = 0 -> "0" [] d = 1 -> "1" [] d = 2 -> "2" [] d = 3 -> "3"
    [] d = 4 -> "4" [] d = 5 -> "5" [] d = 6 -> "6" [] d = 7 -> "7"
    [] d = 8 -> "8" [] OTHER -> "9"

RECURSIVE Str(_)
\* str(i) of a non-negative integer, as the f-string formats it
Str(i) == IF i < 10 THEN <<Digit(i)>> ELSE Str(i \div 10) \o <<Digit(i % 10)>>

(***************************************************************************)
(* Name filters                                                            *)
(***************************************************************************)
TEMP_SUFFIXES ==
  { <<".", "t", "m", "p">>,
    <<".", "p", "a", "r", "t", "i", "a", "l">>,
    <<".", "p", "a", "r", "t">>,
    <<".", "c", "r", "d", "o", "w", "n", "l", "o", "a", "d">> }

TEMP_PREFIXES == { <<".", "~">>, <<"~", "$">>, <<".">> }

CSV_EXTENSIONS == { <<".", "c", "s", "v">> }

is_probably_temp(path) ==
  \/ \E p \in TEMP_PREFIXES : StartsWith(path.name, p)
  \/ \E suf \in TEMP_SUFFIXES : EndsWith(path.name, suf)

is_csv(path) == LowerStr(Suffix(path.name)) \in CSV_EXTENSIONS

(***************************************************************************)
(* CSV text: csv.Sniffer, csv.reader, csv.DictReader                       *)
(***************************************************************************)
\* A text is a sequence of one-character strings.  None is the absent
\* value of an optional setting (a delimiter or quote character is a
\* one-character string otherwise).
None == "None"

NL == "\n"

\* a line of the file ends at "\n", at "\r" and at "\r\n" (the file is
\* opened with newline="", so the line ends reach the reader as they are)
CR == "\r"

IsEOL(c) == c \in {NL, CR}

\* "a,b\n1,2\n3,4\n...": a header line and sz - 1 numbered rows; the empty
\* text for sz = 0
RECURSIVE Canon(_)
Canon(sz) ==
  IF sz = 0 THEN <<>>
  ELSE IF sz = 1 THEN <<"a", ",", "b", NL>>
  ELSE Canon(sz - 1) \o Str(2 * sz - 3) \o <<",">> \o Str(2 * sz - 2) \o <<NL>>

\* ",b\n1,2\n": the first cell of the first row is empty
TextEmptyCell == <<",", "b", NL, "1", ",", "2", NL>>
\* " ,b\n1,2\n": the first cell of the first row is a blank
TextBlankCell == <<" ", ",", "b", NL, "1", ",", "2", NL>>
\* "\na,b\n": the first line is empty
TextBlankLine == <<NL, "a", ",", "b", NL>>
\* "a\n1\n": one column
TextOneColumn == <<"a", NL, "1", NL>>
\* "a\n\"1,x\"\n": one column, a quoted cell holding a comma
TextQuotedColumn == <<"a", NL, "\"", "1", ",", "x", "\"", NL>>
\* "a,b\n1\n": a short row
TextShortRow == <<"a", ",", "b", NL, "1", NL>>
\* "a;b\n1;2\n"
TextSemicolon == <<"a", ";", "b", NL, "1", ";", "2", NL>>
\* "a,b\r\n1,2\r\n": lines that end in a carriage return and a line feed
TextCRLF == <<"a", ",", "b", CR, NL, "1", ",", "2", CR, NL>>
\* "'a','b'\n'1,x','2'\n": single-quoted cells, one holding a comma
TextQuoted ==
  <<"'", "a", "'", ",", "'", "b", "'", NL,
    "'", "1", ",", "x", "'", ",", "'", "2", "'", NL>>

\* the outcome of csv.Sniffer().sniff: a dialect, or the csv.Error that
\* line 88 swallows
NoDialect == [ok |-> FALSE]

Dialect(d, q) == [ok |-> TRUE, delimiter |-> d, quotechar |-> q]

\* csv.Sniffer().sniff(sample) on the texts of this model, as the library
\* answers for them: it fails on the empty text, on one column and on rows
\* of unequal length
Sniff(sample) ==
  IF sample \in {<<>>, TextOneColumn, TextQuotedColumn, TextShortRow} THEN NoDialect
  ELSE IF sample = TextSemicolon THEN Dialect(";", "\"")
  ELSE IF sample = TextQuoted THEN Dialect(",", "'")
  ELSE Dialect(",", "\"")

\* "not x" for an optional string of the configuration
Falsy(x) == x = None \/ x = ""

\* lines 85-88: the sniffer runs only when no delimiter is configured
SniffedDialect(c, text) == IF Falsy(c.delimiter) THEN Sniff(text) ELSE NoDialect

\* a resolution whose fallback delimiter is the semicolon
ResolveDelimiterSemicolon(c, dialect) ==
  IF ~Falsy(c.delimiter) THEN c.delimiter
  ELSE IF dialect.ok THEN dialect.delimiter
  ELSE ";"

\* lines 90-95
ResolveDelimiter(c, dialect) ==
  IF ~Falsy(c.delimiter) THEN c.delimiter
  ELSE IF dialect.ok THEN dialect.delimiter
  ELSE ","

\* lines 97-102
ResolveQuotechar(c, dialect) ==
  IF ~Falsy(c.quotechar) THEN c.quotechar
  ELSE IF dialect.ok THEN dialect.quotechar
  ELSE "\""

\* the length of the line end that starts at position i
EOLLen(text, i) ==
  IF text[i] = CR /\ i < Len(text) /\ text[i + 1] = NL THEN 2 ELSE 1

\* csv.reader over the rest of the text from position i, in parser state st,
\* with the cell, the row and the rows collected so far; outside quotes a
\* line end closes the record and the reader eats the whole of it
RECURSIVE ParseFrom(_, _, _, _, _, _, _, _)
ParseFrom(text, i, st, field, row, rows, d, q) ==
  IF i > Len(text)
  THEN IF st = "start_record" THEN rows ELSE Append(rows, Append(row, field))
  ELSE
    LET c == text[i]
        st1 == IF st = "start_record" /\ ~IsEOL(c) THEN "start_field" ELSE st
        eol == i + EOLLen(text, i)
    IN CASE st1 = "start_record" ->
              ParseFrom(text, eol, "start_record", <<>>, <<>>, Append(rows, <<>>), d, q)
         [] st1 = "start_field" ->
              IF IsEOL(c) THEN
                ParseFrom(text, eol, "start_record", <<>>, <<>>,
                          Append(rows, Append(row, <<>>)), d, q)
              ELSE IF c = q THEN
                ParseFrom(text, i + 1, "in_quoted", <<>>, row, rows, d, q)
              ELSE IF c = d THEN
                ParseFrom(text, i + 1, "start_field", <<>>, Append(row, <<>>), rows, d, q)
              ELSE
                ParseFrom(text, i + 1, "in_field", <<c>>, row, rows, d, q)
         [] st1 = "in_field" ->
              IF IsEOL(c) THEN
                ParseFrom(text, eol, "start_record", <<>>, <<>>,
                          Append(rows, Append(row, field)), d, q)
              ELSE IF c = d THEN
                ParseFrom(text, i + 1, "start_field", <<>>, Append(row, field), rows, d, q)
              ELSE
                ParseFrom(text, i + 1, "in_field", Append(field, c), row, rows, d, q)
         [] st1 = "in_quoted" ->
              IF c = q THEN
                ParseFrom(text, i + 1, "quote_in_quoted", field, row, rows, d, q)
              ELSE
                ParseFrom(text, i + 1, "in_quoted", Append(field, c), row, rows, d, q)
         [] OTHER ->
              IF c = q THEN
                ParseFrom(text, i + 1, "in_quoted", Append(field, c), row, rows, d, q)
              ELSE IF c = d THEN
                ParseFrom(text, i + 1, "start_field", <<>>, Append(row, field), rows, d, q)
              ELSE IF IsEOL(c) THEN
                ParseFrom(text, eol, "start_record", <<>>, <<>>,
                          Append(rows, Append(row, field)), d, q)
              ELSE
                ParseFrom(text, i + 1, "in_field", Append(field, c), row, rows, d, q)

\* the rows csv.reader(f, delimiter=d, quotechar=q) yields for the text
Parse(text, d, q) == ParseFrom(text, 1, "start_record", <<>>, <<>>, <<>>, d, q)

\* str.strip() leaves nothing of the cell
Blank(cell) == \A i \in DOMAIN cell : cell[i] \in {" ", "\t", NL, CR, "\f"}

\* a header test that does not strip the cells
HeaderValidUnstripped(rows) ==
  /\ rows # <<>>
  /\ rows[1] # <<>>
  /\ \A i \in DOMAIN rows[1] : rows[1][i] # <<>>

\* line 107: DictReader.fieldnames is the first row the reader yields;
\* the header is accepted when it has a cell and no cell is blank
HeaderValid(rows) ==
  /\ rows # <<>>
  /\ rows[1] # <<>>
  /\ \A i \in DOMAIN rows[1] : ~Blank(rows[1][i])

\* a JSON value: a string, null, or a list of strings
JStr(s) == [t |-> "str", s |-> s]

JNull == [t |-> "null"]

JList(l) == [t |-> "list", l |-> l]

\* a record is a sequence of <<key, value>> pairs in insertion order;
\* d[key] = value on a dict
DictSet(rec, key, val) ==
  IF \E i \in DOMAIN rec : rec[i][1] = key
  THEN [i \in DOMAIN rec |-> IF rec[i][1] = key THEN <<key, val>> ELSE rec[i]]
  ELSE Append(rec, <<key, val>>)

\* dict(zip(fieldnames, row)) over the first n pairs
RECURSIVE ZipDict(_, _, _)
ZipDict(names, row, n) ==
  IF n = 0 THEN <<>>
  ELSE DictSet(ZipDict(names, row, n - 1), JStr(names[n]), JStr(row[n]))

\* d[key] = restval for the field names from position k to the last
RECURSIVE RestVal(_, _, _)
RestVal(rec, names, k) ==
  IF k > Len(names) THEN rec
  ELSE RestVal(DictSet(rec, JStr(names[k]), JNull), names, k + 1)

Min(a, b) == IF a < b THEN a ELSE b

\* csv.DictReader.__next__ for one row: surplus cells go under the key
\* None (restkey), missing cells are None (restval)
DictRecord(names, row) ==
  LET lf == Len(names)
      lr == Len(row)
      z  == ZipDict(names, row, Min(lf, lr))
  IN IF lf < lr THEN DictSet(z, JNull, JList(SubSeq(row, lf + 1, lr)))
     ELSE IF lf > lr THEN RestVal(z, names, lr + 1)
     ELSE z

\* the rows that are not empty: DictReader skips a row that is []
NonEmptyRows(rows) == SelectSeq(rows, LAMBDA r : r # <<>>)

\* line 108: the records of header mode, one per non-empty row after the
\* header row
HeaderRecords(rows) ==
  IF rows = <<>> THEN <<>>
  ELSE LET body == NonEmptyRows(Tail(rows))
       IN [i \in DOMAIN body |-> DictRecord(rows[1], body[i])]

\* line 112: {f"col{idx+1}": val for idx, val in enumerate(row)}
PositionalRecord(row) ==
  [i \in DOMAIN row |-> <<JStr(<<"c", "o", "l">> \o Str(i)), JStr(row[i])>>]

\* the records of positional mode, one per row from the start of the file
PositionalRecords(rows) == [i \in DOMAIN rows |-> PositionalRecord(rows[i])]

(***************************************************************************)
(* JSON text: json.dumps and Converter._write_json                         *)
(***************************************************************************)
\* the escape of one character inside a JSON string (ensure_ascii=False)
EscapeChar(c) ==
  CASE c = "\"" -> <<"\\", "\"">>
    [] c = "\\" -> <<"\\", "\\">>
    [] c = NL   -> <<"\\", "n">>
    [] c = "\t" -> <<"\\", "t">>
    [] c = "\r" -> <<"\\", "r">>
    [] c = "\f" -> <<"\\", "f">>
    [] OTHER    -> <<c>>

RECURSIVE Escape(_)
Escape(s) == IF s = <<>> THEN <<>> ELSE EscapeChar(Head(s)) \o Escape(Tail(s))

\* a JSON string literal
Quoted(s) == <<"\"">> \o Escape(s) \o <<"\"">>

\* the items, each followed by sep except the last: sep.join(items)
RECURSIVE Join(_, _)
Join(items, sep) ==
  IF items = <<>> THEN <<>>
  ELSE IF Len(items) = 1 THEN items[1]
  ELSE items[1] \o sep \o Join(Tail(items), sep)

\* json.dumps of a value, with the default item separator ", "
DumpsValue(v) ==
  CASE v.t = "str"  -> Quoted(v.s)
    [] v.t = "null" -> <<"n", "u", "l", "l">>
    [] OTHER -> <<"[">> \o Join([i \in DOMAIN v.l |-> Quoted(v.l[i])], <<",", " ">>)
                        \o <<"]">>

\* json.dumps of a key: a string, or None which becomes "null"
DumpsKey(k) == IF k.t = "str" THEN Quoted(k.s) ELSE Quoted(<<"n", "u", "l", "l">>)

\* json.dumps(row, ensure_ascii=False) with indent None: the default
\* separators are ", " between items and ": " after a key
Dumps(rec) ==
  <<"{">> \o Join([i \in DOMAIN rec |-> DumpsKey(rec[i][1]) \o <<":", " ">>
                                          \o DumpsValue(rec[i][2])], <<",", " ">>)
          \o <<"}">>

\* _write_json: what open(tmp_path, "w") and the code before the loop write
WriteHead(jsonl) == IF jsonl THEN <<>> ELSE <<"[">>

\* _write_json: what the loop writes for the record that follows n others
WriteItem(jsonl, n, rec) ==
  IF jsonl THEN Dumps(rec) \o <<NL>>
  ELSE (IF n = 0 THEN <<>> ELSE <<",">>) \o Dumps(rec)

\* whether record n (from 0) is written by two calls of out.write: the
\* line and its "\n" (line 118), or the "," and the object (lines 123, 126)
TwoWrites(jsonl, n) == jsonl \/ n > 0

\* what the first out.write of record n writes
WriteFirst(jsonl, n, rec) == IF ~jsonl /\ n > 0 THEN <<",">> ELSE Dumps(rec)

\* what the second out.write of record n writes, where there are two
WriteSecond(jsonl, rec) == IF jsonl THEN <<NL>> ELSE Dumps(rec)

\* _write_json: what is written after the loop
WriteTail(jsonl) == IF jsonl THEN <<>> ELSE <<"]">>

\* the text of a whole _write_json call over the records
RECURSIVE WriteItems(_, _, _)
WriteItems(jsonl, recs, n) ==
  IF n = 0 THEN <<>>
  ELSE WriteItems(jsonl, recs, n - 1) \o WriteItem(jsonl, n - 1, recs[n])

WriteJson(jsonl, recs) ==
  WriteHead(jsonl) \o WriteItems(jsonl, recs, Len(recs)) \o WriteTail(jsonl)

(***************************************************************************)
(* Paths and documents                                                     *)
(***************************************************************************)
\* a path under the watch directory: its sub-directory ("" for the root)
\* and its file name
Path(d, n) == [dir |-> d, name |-> n]

PathA     == Path("", <<"a", ".", "c", "s", "v">>)
PathSubA  == Path("sub", <<"a", ".", "c", "s", "v">>)
PathDeepA == Path("sub/deep", <<"a", ".", "c", "s", "v">>)
PathUpper == Path("", <<"B", ".", "C", "S", "V">>)
PathDot   == Path("", <<".", "a", ".", "c", "s", "v">>)
PathLock  == Path("", <<"~", "$", "a", ".", "c", "s", "v">>)
PathTmp   == Path("", <<"a", ".", "c", "s", "v", ".", "t", "m", "p">>)
PathPart  == Path("", <<"a", ".", "p", "a", "r", "t">>)
PathTxt   == Path("", <<"a", ".", "t", "x", "t">>)

\* the queue's terminator (None) and the empty slot of a path variable
Sentinel == [dir |-> "", name |-> <<>>]

\* a file that does not exist (mtime keeps the stamp of its last write);
\* made tells that the file has existed, so its directory exists
NoFile == [exists |-> FALSE, size |-> 0, text |-> <<>>, mtime |-> 0, made |-> FALSE]

\* an empty output directory
EmptyDir == [n \in {} |-> 0]

\* a complete document left in the output directory by an earlier run
OldDoc == [src |-> Sentinel, scheme |-> "old", rows |-> 0, complete |-> TRUE,
           text |-> <<"[", "]">>]

\* no open handle; an open one tells whether the path still names the file
\* it reads (linked) and, once the file is unlinked, the text it kept
NoHandle == [open |-> FALSE, linked |-> FALSE, text |-> <<>>]

\* no reader
NoReader == [text |-> <<>>, rows |-> <<>>, delimiter |-> None, quotechar |-> None]

VARIABLES
  cfg,        \* Config: watchdog (HAVE_WATCHDOG), process_existing, overwrite, recursive,
              \* json_lines, delimiter, quotechar (indent is None throughout)
  now,        \* the clock, in ticks
  budget,     \* writes the environment may still make
  files,      \* watch directory: path -> [exists, size, mtime]
  outfs,      \* output directory: file name -> document, for the files that exist
  events,     \* file-system events the observer has not yet dispatched
  timers,     \* every threading.Timer created, in creation order
  tmap,       \* Debouncer._timers: path -> index into timers, 0 for no entry
  queue,      \* Converter._work_q
  stopFlag,   \* Converter._stop
  mpc,        \* main thread: where it is
  qlock,      \* the mutex of Converter._work_q is held by a call of put that the
              \* signal handler interrupted in the main thread
  exTodo,     \* process_existing: paths the glob has listed and not yet yielded
  exDirs,     \* process_existing: the directory the glob is in, then those it has
              \* found and not yet entered
  ppc,        \* polling thread: where it is
  pollTodo,   \* _PollingWatcher._run: paths the scan has listed and not yet visited
  pollDirs,   \* _scan_csvs: the directory the glob is in, then those found, not entered
  pollPend,   \* _run: the path whose mtime was recorded and whose enqueue is next
  seen,       \* _PollingWatcher._seen: path -> mtime, -1 for no entry
  pstop,      \* _PollingWatcher._stop
  nScans,     \* scans the polling thread has begun
  wpc,        \* worker thread: where it is
  cur,        \* worker: the path of the job in hand
  last,       \* _wait_stable: last
  stable,     \* _wait_stable: stable
  attempt,    \* _wait_stable: iterations of the for loop completed
  outp,       \* _convert_file: out_path (file name in the output directory)
  tmpp,       \* _convert_file: tmp_path
  fh,         \* _convert_file: f, the open handle of the source: whether the path
              \* still names its file, and the file's text if it does not
  reader,     \* _convert_file: delimiter and quotechar, the text the reader has
              \* read from f since the last seek(0), and its rows
  hist        \* history of the run, read only by the properties

vars == <<cfg, now, budget, files, outfs, events, timers, tmap, queue, stopFlag,
          mpc, qlock, exTodo, exDirs, ppc, pollTodo, pollDirs, pollPend, seen, pstop, nScans,
          wpc, cur, last, stable, attempt, outp, tmpp, fh, reader, hist>>

envVars    == <<now, budget, files, events>>
debVars    == <<timers, tmap>>
mainVars   == <<mpc, qlock, exTodo, exDirs, stopFlag>>
pollVars   == <<ppc, pollTodo, pollDirs, pollPend, seen, pstop, nScans>>

Paths == DOMAIN files

(***************************************************************************)
(* Initial state                                                           *)
(***************************************************************************)
\* the state after main() has parsed its arguments, built the Converter
\* (whose worker thread is started by its constructor) and installed the
\* signal handlers: configuration c, watch directory f, output directory o;
\* the environment will make at most w writes
InitState(c, f, o, w) ==
  /\ cfg = c
  /\ now = 0
  /\ budget = w
  /\ files = f
  /\ outfs = o
  /\ events = <<>>
  /\ timers = <<>>
  /\ tmap = [p \in DOMAIN f |-> 0]
  /\ queue = <<>>
  /\ stopFlag = FALSE
  /\ mpc = "start"
  /\ qlock = FALSE
  /\ exTodo = {}
  /\ exDirs = <<>>
  /\ ppc = "off"
  /\ pollTodo = {}
  /\ pollDirs = <<>>
  /\ pollPend = Sentinel
  /\ seen = [p \in DOMAIN f |-> -1]
  /\ pstop = FALSE
  /\ nScans = 0
  /\ wpc = "loop"
  /\ cur = Sentinel
  /\ last = 0
  /\ stable = 0
  /\ attempt = 0
  /\ outp = <<>>
  /\ tmpp = <<>>
  /\ fh = NoHandle
  /\ reader = NoReader
  /\ hist = [ firstTrig  |-> [p \in DOMAIN f |-> -1],
              lastTrig   |-> [p \in DOMAIN f |-> -1],
              nTrig      |-> [p \in DOMAIN f |-> 0],
              puts       |-> [p \in DOMAIN f |-> 0],
              conv       |-> [p \in DOMAIN f |-> 0],
              done       |-> [p \in DOMAIN f |-> 0],
              polls      |-> 0,
              samples    |-> <<>>,
              hdrRows    |-> 0,
              changedAll |-> FALSE,
              jobWrites  |-> 0,
              result     |-> "none",
              failed     |-> 0 ]

\* a file with the given text and modification stamp; size is st_size
File(text, mtime) ==
  [exists |-> TRUE, size |-> Len(text), text |-> text, mtime |-> mtime, made |-> TRUE]

\* a file of sz lines that exists when the program starts
OldFile(sz) == File(Canon(sz), 0)

Config(w, pe, ow, rec, jl) ==
  [watchdog |-> w, process_existing |-> pe, overwrite |-> ow, recursive |-> rec,
   json_lines |-> jl, delimiter |-> None, quotechar |-> None]

(***************************************************************************)
(* Converter.enqueue                                                       *)
(***************************************************************************)
\* an enqueue that puts the path at the head of the queue
EnqueueAtHead(q, p) ==
  IF ~is_csv(p) \/ is_probably_temp(p) \/ ~files[p].exists THEN q ELSE <<p>> \o q

\* an enqueue that leaves out the temporary-name test
EnqueueNoTempTest(q, p) ==
  IF ~is_csv(p) \/ ~files[p].exists THEN q ELSE Append(q, p)

\* the queue after enqueue(p): ineligible and missing paths are dropped
Enqueue(q, p) ==
  IF ~is_csv(p) \/ is_probably_temp(p) \/ ~files[p].exists THEN q ELSE Append(q, p)

(***************************************************************************)
(* Environment: the clock and the programs that write the watched files    *)
(***************************************************************************)
Tick ==
  /\ now < MaxTime
  /\ now' = now + 1
  /\ UNCHANGED <<cfg, budget, files, outfs, events, queue, hist>>
  /\ UNCHANGED <<debVars, mainVars, pollVars, wpc, cur, last, stable, attempt, outp, tmpp, fh, reader>>

\* the observer reports a path when it is running and the path is in scope
Observed(p) == cfg.watchdog /\ mpc = "watch" /\ (cfg.recursive \/ p.dir = "")

\* another program creates file p or rewrites it in place, with sz lines
\* (a handle open on the file reads the new text); the observer
\* queues an on_created / on_modified event for it
EnvWrite(p, sz) ==
  /\ budget > 0
  /\ budget' = budget - 1
  /\ files' = [files EXCEPT ![p] = File(Canon(sz), @.mtime + 1)]
  /\ events' = IF Observed(p) THEN Append(events, p) ELSE events
  /\ hist' = [hist EXCEPT !.conv[p] = 0]
  /\ UNCHANGED <<cfg, now, outfs, queue>>
  /\ UNCHANGED <<debVars, mainVars, pollVars, wpc, cur, last, stable, attempt, outp, tmpp, fh, reader>>

\* another program deletes file p (on_deleted is not handled); a handle
\* that is open on the file goes on reading the text it had
EnvDelete(p) ==
  /\ budget > 0
  /\ files[p].exists
  /\ budget' = budget - 1
  /\ files' = [files EXCEPT ![p] = [NoFile EXCEPT !.mtime = files[p].mtime, !.made = TRUE]]
  /\ fh' = IF fh.open /\ fh.linked /\ cur = p
           THEN [fh EXCEPT !.linked = FALSE, !.text = files[p].text]
           ELSE fh
  /\ hist' = [hist EXCEPT !.conv[p] = 0]
  /\ UNCHANGED <<cfg, now, outfs, events, queue>>
  /\ UNCHANGED <<debVars, mainVars, pollVars, wpc, cur, last, stable, attempt, outp, tmpp, reader>>

(***************************************************************************)
(* Debouncer and its timers                                                *)
(***************************************************************************)
\* A threading.Timer is "waiting" from start() until its wait is over and it
\* has read its finished flag; "fired" once it has found the flag clear and
\* is about to call _run; "popped" once _run has removed the map entry and
\* released the lock; "finished" after action(path); "cancelled" when
\* cancel() set the flag while it was still waiting.
NewTimer(p) == [path |-> p, st |-> "waiting", deadline |-> now + Delay]

\* a trigger that forgets to cancel the registered timer
CancelForgotten(ts, t) == ts

\* Timer.cancel(): sets the finished flag, which only a waiting timer reads
Cancel(ts, t) ==
  IF t # 0 /\ ts[t].st = "waiting"
  THEN [ts EXCEPT ![t] = [@ EXCEPT !.st = "cancelled", !.deadline = 0]]
  ELSE ts

\* Debouncer.trigger(path), the whole body under the lock
Trigger(p) ==
  /\ timers' = Append(Cancel(timers, tmap[p]), NewTimer(p))
  /\ tmap' = [tmap EXCEPT ![p] = Len(timers) + 1]
  /\ hist' = [hist EXCEPT !.firstTrig[p] = IF @ = -1 THEN now ELSE @,
                          !.lastTrig[p] = now,
                          !.nTrig[p] = @ + 1]

\* _WatchdogHandler._maybe_handle for the next event of the observer
HandleEvent ==
  /\ cfg.watchdog
  /\ mpc = "watch"
  /\ events # <<>>
  /\ events' = Tail(events)
  /\ IF is_csv(Head(events))
     THEN Trigger(Head(events))
     ELSE UNCHANGED <<timers, tmap, hist>>
  /\ UNCHANGED <<cfg, now, budget, files, outfs, queue>>
  /\ UNCHANGED <<mainVars, pollVars, wpc, cur, last, stable, attempt, outp, tmpp, fh, reader>>

\* Timer.run: the wait is over and the finished flag is still clear
TimerExpire(t) ==
  /\ timers[t].st = "waiting"
  /\ now >= timers[t].deadline
  /\ timers' = [timers EXCEPT ![t].st = "fired"]
  /\ UNCHANGED <<cfg, now, budget, files, outfs, events, tmap, queue, hist>>
  /\ UNCHANGED <<mainVars, pollVars, wpc, cur, last, stable, attempt, outp, tmpp, fh, reader>>

\* Debouncer._run, first line: pop the path's entry under the lock
TimerRun(t) ==
  /\ timers[t].st = "fired"
  /\ timers' = [timers EXCEPT ![t].st = "popped"]
  /\ tmap' = [tmap EXCEPT ![timers[t].path] = 0]
  /\ UNCHANGED <<cfg, now, budget, files, outfs, events, queue, hist>>
  /\ UNCHANGED <<mainVars, pollVars, wpc, cur, last, stable, attempt, outp, tmpp, fh, reader>>

\* Debouncer._run, second line: action(path), which is Converter.enqueue
TimerAction(t) ==
  /\ timers[t].st = "popped"
  /\ ~qlock
  /\ timers' = [timers EXCEPT ![t] = [@ EXCEPT !.st = "finished", !.deadline = 0]]
  /\ queue' = Enqueue(queue, timers[t].path)
  /\ hist' = [hist EXCEPT !.puts[timers[t].path] = @ + Len(queue') - Len(queue)]
  /\ UNCHANGED <<cfg, now, budget, files, outfs, events, tmap>>
  /\ UNCHANGED <<mainVars, pollVars, wpc, cur, last, stable, attempt, outp, tmpp, fh, reader>>

(***************************************************************************)
(* Main thread: startup scan, start of the watcher, shutdown               *)
(***************************************************************************)
\* the directories of the watch tree: the root "", sub and sub/deep
SubDirs(d) ==
  CASE d = "" -> {"sub"} [] d = "sub" -> {"sub/deep"} [] OTHER -> {}

\* directory e is d or lies under it
RECURSIVE Under(_, _)
Under(e, d) == e = d \/ \E c \in SubDirs(d) : Under(e, c)

\* a directory exists once a file in it or under it has been made (no
\* program removes a directory); the watch directory itself always exists
DirExists(d) == d = "" \/ \E p \in Paths : Under(p.dir, d) /\ files[p].made

\* a set as a sequence, in the order the directory scan happens to give
RECURSIVE SeqOf(_)
SeqOf(S) == IF S = {} THEN <<>> ELSE LET x == CHOOSE y \in S : TRUE
                                     IN <<x>> \o SeqOf(S \ {x})

\* the file p matches "*.csv" (fnmatch is case-sensitive here) and exists
Glob(p) ==
  /\ files[p].exists
  /\ Len(p.name) >= 4 /\ EndsWith(p.name, <<".", "c", "s", "v">>)

\* one os.scandir of directory d, filtered by "*.csv": the wildcard
\* selector lists the directory when the generator reaches it
ListDir(d) == {p \in Paths : p.dir = d /\ Glob(p)}

\* Path.rglob / Path.glob begins: the watch directory is listed first;
\* glob goes no further
ScanDirs0 == IF cfg.recursive THEN <<"">> ELSE <<>>

\* rglob, when the files of a directory are all yielded: the directory is
\* scanned for sub-directories, which go before those still waiting
ScanDirsNext(dirs) ==
  SeqOf({d \in SubDirs(Head(dirs)) : DirExists(d)}) \o Tail(dirs)

\* the files of the directory the generator enters next
ScanListNext(dirs) ==
  IF ScanDirsNext(dirs) = <<>> THEN {} ELSE ListDir(Head(ScanDirsNext(dirs)))

\* main() sets up the watcher: the observer, built and started, or
\* poller=_PollingWatcher(cfg,conv), whose thread is not started yet
StartWatcher ==
  /\ mpc' = "watch"
  /\ ppc' = ppc

\* main(): if cfg.process_existing, begin process_existing; else start watching
MainStart ==
  /\ mpc = "start"
  /\ IF cfg.process_existing
     THEN /\ mpc' = "existing"
          /\ exTodo' = ListDir("")
          /\ exDirs' = ScanDirs0
          /\ ppc' = ppc
     ELSE /\ StartWatcher
          /\ UNCHANGED <<exTodo, exDirs>>
  /\ UNCHANGED <<cfg, outfs, queue, qlock, stopFlag, pollTodo, pollDirs, pollPend, seen, pstop, nScans, hist>>
  /\ UNCHANGED <<envVars, debVars, wpc, cur, last, stable, attempt, outp, tmpp, fh, reader>>

\* process_existing: emit(p) for the next path of the glob
MainEmit(p) ==
  /\ mpc = "existing"
  /\ p \in exTodo
  /\ exTodo' = exTodo \ {p}
  /\ queue' = IF files[p].exists /\ is_csv(p) /\ ~is_probably_temp(p)
              THEN Enqueue(queue, p) ELSE queue
  /\ UNCHANGED <<cfg, outfs, mpc, qlock, exDirs, stopFlag, hist>>
  /\ UNCHANGED <<envVars, debVars, pollVars, wpc, cur, last, stable, attempt, outp, tmpp, fh, reader>>

\* process_existing: the rglob generator is asked for the next path when
\* the files of its directory are used up; it goes on to the next directory
MainList ==
  /\ mpc = "existing"
  /\ exTodo = {}
  /\ exDirs # <<>>
  /\ exDirs' = ScanDirsNext(exDirs)
  /\ exTodo' = ScanListNext(exDirs)
  /\ UNCHANGED <<cfg, outfs, queue, mpc, qlock, stopFlag, hist>>
  /\ UNCHANGED <<envVars, debVars, pollVars, wpc, cur, last, stable, attempt, outp, tmpp, fh, reader>>

\* main(): process_existing has returned; start watching
MainWatch ==
  /\ mpc = "existing"
  /\ exTodo = {}
  /\ exDirs = <<>>
  /\ StartWatcher
  /\ UNCHANGED <<cfg, outfs, queue, qlock, exTodo, exDirs, stopFlag, pollTodo, pollDirs, pollPend, seen, pstop, nScans, hist>>
  /\ UNCHANGED <<envVars, debVars, wpc, cur, last, stable, attempt, outp, tmpp, fh, reader>>

\* the states in which the worker holds a dequeued path
JobStates == {"stat0", "poll", "resolve", "open", "header", "hdr_open", "hdr_row", "hdr_part",
              "pos_open", "pos_row", "pos_part", "replace"}

\* a thread at position pc when the process ends: a thread that has not
\* returned is a daemon thread and ends where it is
Killed(pc, ended) == IF pc \in ended THEN pc ELSE "killed"

\* main(): poller.start(), the statement after the poller is built
PollerStart ==
  /\ ~cfg.watchdog
  /\ mpc = "watch"
  /\ ppc = "off"
  /\ ppc' = "loop"
  /\ UNCHANGED <<cfg, outfs, queue, hist, pollTodo, pollDirs, pollPend, seen, pstop, nScans>>
  /\ UNCHANGED <<envVars, debVars, mainVars, wpc, cur, last, stable, attempt, outp, tmpp, fh, reader>>

\* _shutdown: the signal arrives while the main thread is between two
\* calls of put; observer.stop() or, when the poller is built (started or
\* not), poller.stop(), which sets its stop event
Shutdown ==
  /\ mpc \in {"start", "existing", "watch"}
  /\ mpc' = "stopping"
  /\ pstop' = IF ~cfg.watchdog /\ mpc = "watch" THEN TRUE ELSE pstop
  /\ UNCHANGED <<cfg, outfs, queue, qlock, exTodo, exDirs, stopFlag, ppc, pollTodo, pollDirs, pollPend, seen, nScans, hist>>
  /\ UNCHANGED <<envVars, debVars, wpc, cur, last, stable, attempt, outp, tmpp, fh, reader>>

\* _shutdown: the signal arrives while the main thread is inside
\* self._work_q.put(p) of process_existing, holding the queue's mutex,
\* before (put = FALSE) or after (put = TRUE) the path is appended; the
\* handler runs in the main thread on top of that call, which does not go
\* on, so the mutex stays held
ShutdownInPut(p, put) ==
  /\ mpc = "existing"
  /\ p \in exTodo
  /\ Enqueue(queue, p) # queue
  /\ exTodo' = exTodo \ {p}
  /\ queue' = IF put THEN Enqueue(queue, p) ELSE queue
  /\ qlock' = TRUE
  /\ mpc' = "stopping"
  /\ UNCHANGED <<cfg, outfs, exDirs, stopFlag, hist>>
  /\ UNCHANGED <<envVars, debVars, pollVars, wpc, cur, last, stable, attempt, outp, tmpp, fh, reader>>

\* Converter.stop: self._stop.set()
StopSet ==
  /\ mpc = "stopping"
  /\ stopFlag' = TRUE
  /\ mpc' = "stop_put"
  /\ UNCHANGED <<cfg, outfs, queue, qlock, exTodo, exDirs, hist>>
  /\ UNCHANGED <<envVars, debVars, pollVars, wpc, cur, last, stable, attempt, outp, tmpp, fh, reader>>

\* Converter.stop: self._work_q.put(None), which waits for the queue's
\* mutex (for ever, when the interrupted call of put holds it)
StopPut ==
  /\ mpc = "stop_put"
  /\ ~qlock
  /\ queue' = Append(queue, Sentinel)
  /\ mpc' = "join"
  /\ UNCHANGED <<cfg, outfs, qlock, exTodo, exDirs, stopFlag, hist>>
  /\ UNCHANGED <<envVars, debVars, pollVars, wpc, cur, last, stable, attempt, outp, tmpp, fh, reader>>

\* Converter.stop: self._worker.join(timeout=5) returns, because the worker
\* has ended or because the 5 s are over, and _shutdown calls sys.exit(0):
\* the process ends and its daemon threads with it, the worker included.
\* The 5 s pass only while the worker spends time, which it does in a job
\* (the sleeps of _wait_stable, the reads and writes of _convert_file); at
\* the loop head and in a get that has an item to take it steps at once.
StopJoin ==
  /\ mpc = "join"
  /\ wpc = "exited" \/ wpc \in JobStates
  /\ mpc' = "exited"
  /\ wpc' = Killed(wpc, {"exited"})
  /\ ppc' = Killed(ppc, {"off", "stopped"})
  /\ timers' = [t \in DOMAIN timers |->
                  IF timers[t].st \in {"cancelled", "finished"} THEN timers[t]
                  ELSE [timers[t] EXCEPT !.st = "killed", !.deadline = 0]]
  /\ UNCHANGED <<cfg, outfs, queue, qlock, exTodo, exDirs, stopFlag, hist>>
  /\ UNCHANGED <<envVars, tmap, pollTodo, pollDirs, pollPend, seen, pstop, nScans>>
  /\ UNCHANGED <<cur, last, stable, attempt, outp, tmpp, fh, reader>>

(***************************************************************************)
(* Polling watcher                                                         *)
(***************************************************************************)
\* _run: the loop head finds the stop event clear and begins a scan
PollBegin ==
  /\ ppc = "loop"
  /\ ~pstop
  /\ nScans < MaxScans
  /\ nScans' = nScans + 1
  /\ pollTodo' = {p \in ListDir("") : ~is_probably_temp(p)}
  /\ pollDirs' = ScanDirs0
  /\ ppc' = "scan"
  /\ UNCHANGED <<cfg, outfs, queue, pollPend, seen, pstop, hist>>
  /\ UNCHANGED <<envVars, debVars, mainVars, wpc, cur, last, stable, attempt, outp, tmpp, fh, reader>>

\* _run: the _scan_csvs generator is asked for the next path when the
\* files of its directory are used up; it goes on to the next directory
PollList ==
  /\ ppc = "scan"
  /\ pollPend = Sentinel
  /\ pollTodo = {}
  /\ pollDirs # <<>>
  /\ pollDirs' = ScanDirsNext(pollDirs)
  /\ pollTodo' = {p \in ScanListNext(pollDirs) : ~is_probably_temp(p)}
  /\ UNCHANGED <<cfg, outfs, queue, ppc, pollPend, seen, pstop, nScans, hist>>
  /\ UNCHANGED <<envVars, debVars, mainVars, wpc, cur, last, stable, attempt, outp, tmpp, fh, reader>>

\* _run: the body of the for loop for path p up to the update of _seen
\* (lines 150-154): p.stat(), the comparison, self._seen[p] = mtime
PollVisit(p) ==
  /\ ppc = "scan"
  /\ pollPend = Sentinel
  /\ p \in pollTodo
  /\ pollTodo' = pollTodo \ {p}
  /\ IF files[p].exists /\ (seen[p] = -1 \/ files[p].mtime > seen[p])
     THEN /\ seen' = [seen EXCEPT ![p] = files[p].mtime]
          /\ pollPend' = p
     ELSE UNCHANGED <<seen, pollPend>>
  /\ UNCHANGED <<cfg, outfs, queue, ppc, pollDirs, pstop, nScans, hist>>
  /\ UNCHANGED <<envVars, debVars, mainVars, wpc, cur, last, stable, attempt, outp, tmpp, fh, reader>>

\* _run, line 154: self.conv.enqueue(p), which looks at the file again
PollEnqueue ==
  /\ ppc = "scan"
  /\ pollPend # Sentinel
  /\ ~qlock
  /\ queue' = Enqueue(queue, pollPend)
  /\ pollPend' = Sentinel
  /\ UNCHANGED <<cfg, outfs, ppc, pollTodo, pollDirs, seen, pstop, nScans, hist>>
  /\ UNCHANGED <<envVars, debVars, mainVars, wpc, cur, last, stable, attempt, outp, tmpp, fh, reader>>

\* _run: the scan is over; sleep, then back to the loop head
PollSleep ==
  /\ ppc = "scan"
  /\ pollPend = Sentinel
  /\ pollTodo = {}
  /\ pollDirs = <<>>
  /\ ppc' = "loop"
  /\ UNCHANGED <<cfg, outfs, queue, pollTodo, pollDirs, pollPend, seen, pstop, nScans, hist>>
  /\ UNCHANGED <<envVars, debVars, mainVars, wpc, cur, last, stable, attempt, outp, tmpp, fh, reader>>

\* _run: the loop head finds the stop event set
PollExit ==
  /\ ppc = "loop"
  /\ pstop
  /\ ppc' = "stopped"
  /\ UNCHANGED <<cfg, outfs, queue, pollTodo, pollDirs, pollPend, seen, pstop, nScans, hist>>
  /\ UNCHANGED <<envVars, debVars, mainVars, wpc, cur, last, stable, attempt, outp, tmpp, fh, reader>>

(***************************************************************************)
(* Output naming                                                           *)
(***************************************************************************)
OutSuffix == IF cfg.json_lines THEN <<".", "j", "s", "o", "n", "l">>
                               ELSE <<".", "j", "s", "o", "n">>

\* csv_path.with_suffix(".json" or ".jsonl").name
OutName(p) == WithSuffix(p.name, OutSuffix)

\* the base output name of source p in array mode
OutNameOf(p) == WithSuffix(p.name, <<".", "j", "s", "o", "n">>)

\* base.with_name(f"{base.stem}_{i}{base.suffix}")
Candidate(base, i) == Stem(base) \o <<"_">> \o Str(i) \o Suffix(base)

\* a resolution that takes the base name whether or not a file has it
unique_out_path_taken(base) == base

\* a probe that stops at the first candidate without testing it
unique_out_path_unprobed(base) ==
  IF cfg.overwrite \/ base \notin DOMAIN outfs THEN base ELSE Candidate(base, 1)

\* Converter._unique_out_path over the output directory's current content
unique_out_path(base) ==
  IF cfg.overwrite \/ base \notin DOMAIN outfs
  THEN base
  ELSE LET n == Cardinality(DOMAIN outfs) + 1
           i == CHOOSE k \in 1..n :
                  /\ Candidate(base, k) \notin DOMAIN outfs
                  /\ \A j \in 1..(k-1) : Candidate(base, j) \in DOMAIN outfs
       IN Candidate(base, i)

\* a temporary path that is the output path itself
TmpNameInPlace(out) == out

\* out_path.with_suffix(out_path.suffix + ".tmp")
TmpName(out) == WithSuffix(out, Suffix(out) \o <<".", "t", "m", "p">>)

\* the output directory with file n holding document d
PutFile(fs, n, d) == [m \in DOMAIN fs \cup {n} |-> IF m = n THEN d ELSE fs[m]]

\* the output directory without file n
RemoveFile(fs, n) == [m \in DOMAIN fs \ {n} |-> fs[m]]

(***************************************************************************)
(* Worker thread: Converter._worker_main                                   *)
(***************************************************************************)
\* the history after the job in hand ended with result res
Ended(h, res) ==
  [h EXCEPT !.result = res, !.failed = IF res = "failed" THEN @ + 1 ELSE @]

\* the job in hand ends and the loop continues; the locals of
\* _wait_stable and _convert_file are gone
JobEnd(h, res) ==
  /\ wpc' = "loop"
  /\ cur' = Sentinel
  /\ last' = 0
  /\ stable' = 0
  /\ attempt' = 0
  /\ outp' = <<>>
  /\ tmpp' = <<>>
  /\ fh' = NoHandle
  /\ reader' = NoReader
  /\ hist' = Ended(h, res)

\* while not self._stop.is_set()
WorkerLoop ==
  /\ wpc = "loop"
  /\ wpc' = IF stopFlag THEN "exited" ELSE "get"
  /\ UNCHANGED <<cfg, outfs, queue, cur, last, stable, attempt, outp, tmpp, fh, reader, hist>>
  /\ UNCHANGED <<envVars, debVars, mainVars, pollVars>>

\* item = self._work_q.get(timeout=0.5) takes the queue's mutex (it waits
\* for it without a bound) and returns an item: None breaks the loop, a
\* path starts a job
WorkerGet ==
  /\ wpc = "get"
  /\ ~qlock
  /\ queue # <<>>
  /\ queue' = Tail(queue)
  /\ IF Head(queue) = Sentinel
     THEN /\ wpc' = "exited"
          /\ UNCHANGED <<cur, hist>>
     ELSE /\ wpc' = "stat0"
          /\ cur' = Head(queue)
          /\ hist' = [hist EXCEPT !.polls = 0, !.changedAll = TRUE, !.samples = <<>>,
                                  !.hdrRows = 0,
                                  !.jobWrites = 0, !.result = "none"]
  /\ UNCHANGED <<cfg, outfs, last, stable, attempt, outp, tmpp, fh, reader>>
  /\ UNCHANGED <<envVars, debVars, mainVars, pollVars>>

\* a get without a timeout: it waits until an item arrives
WorkerGetBlocks ==
  /\ FALSE
  /\ UNCHANGED vars

\* the get times out on an empty queue (the timeout bounds the wait for an
\* item, not the wait for the mutex): except queue.Empty: continue
WorkerGetTimeout ==
  /\ wpc = "get"
  /\ ~qlock
  /\ queue = <<>>
  /\ wpc' = "loop"
  /\ UNCHANGED <<cfg, outfs, queue, cur, last, stable, attempt, outp, tmpp, fh, reader, hist>>
  /\ UNCHANGED <<envVars, debVars, mainVars, pollVars>>

\* _wait_stable: the first stat; a missing file returns False and the
\* job is skipped
WaitStableInit ==
  /\ wpc = "stat0"
  /\ IF files[cur].exists
     THEN /\ last' = files[cur].size
          /\ wpc' = "poll"
          /\ hist' = [hist EXCEPT !.samples = <<files[cur].size>>]
          /\ UNCHANGED <<cur, stable, attempt, outp, tmpp, fh, reader>>
     ELSE JobEnd([hist EXCEPT !.samples = <<-1>>], "unstable")
  /\ UNCHANGED <<cfg, outfs, queue>>
  /\ UNCHANGED <<envVars, debVars, mainVars, pollVars>>

\* a loop that runs one iteration too many
ExhaustedLate(att) == att + 1 >= Checks * 2 + 1

\* for _ in range(checks*2): the iteration that ends is the last one
Exhausted(att) == att + 1 >= Checks * 2

\* a counter that a size change leaves as it is
NextStableKept(same, st) == IF same THEN st + 1 ELSE st

\* lines 64-67: the counter after a poll; a changed size sets it to 0
NextStable(same, st) == IF same THEN st + 1 ELSE 0

\* _wait_stable: one iteration of the for loop, after its sleep; True goes
\* on to _convert_file, False (missing file, or range(checks*2) exhausted)
\* skips the job
WaitStablePoll ==
  /\ wpc = "poll"
  /\ IF ~files[cur].exists
     THEN JobEnd([hist EXCEPT !.samples = Append(@, -1)], "unstable")
     ELSE LET size == files[cur].size
              same == size = last
              st2  == NextStable(same, stable)
              h2   == [hist EXCEPT !.polls = @ + 1, !.changedAll = @ /\ ~same,
                                   !.samples = Append(@, size)]
          IN IF same /\ st2 >= Checks
             THEN /\ wpc' = "resolve"
                  /\ last' = 0
                  /\ stable' = 0
                  /\ attempt' = 0
                  /\ hist' = h2
                  /\ UNCHANGED <<cur, outp, tmpp, fh, reader>>
             ELSE IF Exhausted(attempt)
             THEN JobEnd(h2, "unstable")
             ELSE /\ last' = size
                  /\ stable' = st2
                  /\ attempt' = attempt + 1
                  /\ hist' = h2
                  /\ UNCHANGED <<wpc, cur, outp, tmpp, fh, reader>>
  /\ UNCHANGED <<cfg, outfs, queue>>
  /\ UNCHANGED <<envVars, debVars, mainVars, pollVars>>

\* _convert_file: resolve out_path and tmp_path
ConvertResolve ==
  /\ wpc = "resolve"
  /\ outp' = unique_out_path(OutName(cur))
  /\ tmpp' = TmpName(unique_out_path(OutName(cur)))
  /\ wpc' = "open"
  /\ hist' = [hist EXCEPT !.samples = <<>>]
  /\ UNCHANGED <<cfg, outfs, queue, cur, last, stable, attempt, fh, reader>>
  /\ UNCHANGED <<envVars, debVars, mainVars, pollVars>>

\* the text of the file that the open handle f reads: the file at the path
\* while the path names it (another program rewrites it in place), and
\* the text it had when it was unlinked
HandleText == IF fh.linked THEN files[cur].text ELSE fh.text

\* f has text beyond what the reader has read
MoreToRead == Len(HandleText) > Len(reader.text)

\* the reader after a read at the end of what it has: f is unbuffered
\* after its first read (read1 hands the bytes on), so the read gets what
\* the file holds beyond the reader's position now
AfterRead(r) ==
  LET text == r.text \o SubSeq(HandleText, Len(r.text) + 1, Len(HandleText))
  IN [r EXCEPT !.text = text, !.rows = Parse(text, r.delimiter, r.quotechar)]

\* f.seek(0): the reader that follows starts from the beginning of the file
AfterSeek(r) == [r EXCEPT !.text = <<>>, !.rows = <<>>]

\* the rows the reader of the job in hand has read
SourceRows == reader.rows

\* _convert_file, lines 84-104: open the source, read the sample, seek(0),
\* sniff, settle delimiter and quotechar
ConvertOpen ==
  /\ wpc = "open"
  /\ files[cur].exists
  /\ fh' = [open |-> TRUE, linked |-> TRUE, text |-> <<>>]
  /\ LET dialect == SniffedDialect(cfg, files[cur].text)
     IN reader' = [NoReader EXCEPT !.delimiter = ResolveDelimiter(cfg, dialect),
                                   !.quotechar = ResolveQuotechar(cfg, dialect)]
  /\ wpc' = "header"
  /\ UNCHANGED <<cfg, outfs, queue, cur, last, stable, attempt, outp, tmpp, hist>>
  /\ UNCHANGED <<envVars, debVars, mainVars, pollVars>>

\* _convert_file, lines 106-107: DictReader reads the header row from f; a
\* missing or rejected header raises ValueError, which goes to the
\* positional retry (line 111: f.seek(0))
ConvertHeader ==
  /\ wpc = "header"
  /\ IF HeaderValid(AfterRead(reader).rows)
     THEN /\ reader' = AfterRead(reader)
          /\ wpc' = "hdr_open"
     ELSE /\ reader' = AfterSeek(reader)
          /\ wpc' = "pos_open"
  /\ UNCHANGED <<cfg, outfs, queue, cur, last, stable, attempt, outp, tmpp, fh, hist>>
  /\ UNCHANGED <<envVars, debVars, mainVars, pollVars>>

\* the field-naming scheme of the _write_json call in progress
Scheme == IF wpc \in {"header", "hdr_open", "hdr_row", "hdr_part"} THEN "hdr" ELSE "pos"

\* the records of the reader in use: rows_iter or rows_iter2
Records(scheme) ==
  IF scheme = "hdr" THEN HeaderRecords(SourceRows) ELSE PositionalRecords(SourceRows)

\* whether the reader in use has another row to yield from what it has read
RowsLeft(doc) == doc.rows < Len(Records(doc.scheme))

\* _write_json: the reader is asked for a row at the end of what it has
\* read, and f has more: the rest is read
ReadChunk ==
  /\ wpc \in {"hdr_row", "pos_row"}
  /\ ~RowsLeft(outfs[tmpp])
  /\ MoreToRead
  /\ reader' = AfterRead(reader)
  /\ UNCHANGED <<cfg, outfs, queue, wpc, cur, last, stable, attempt, outp, tmpp, fh, hist>>
  /\ UNCHANGED <<envVars, debVars, mainVars, pollVars>>

\* _write_json: open(tmp_path, "w") creates or truncates the temporary file
WriteOpen ==
  /\ wpc \in {"hdr_open", "pos_open"}
  /\ outfs' = PutFile(outfs, tmpp,
                [src |-> cur, scheme |-> Scheme, rows |-> 0, complete |-> FALSE,
                 text |-> WriteHead(cfg.json_lines)])
  /\ wpc' = IF wpc = "hdr_open" THEN "hdr_row" ELSE "pos_row"
  /\ hist' = [hist EXCEPT !.jobWrites = @ + 1]
  /\ UNCHANGED <<cfg, queue, cur, last, stable, attempt, outp, tmpp, fh, reader>>
  /\ UNCHANGED <<envVars, debVars, mainVars, pollVars>>

\* _write_json: the reader yields a row and the first out.write for it is
\* made: the whole record, or the "," before it (rows counts the records
\* written)
WriteRow ==
  /\ wpc \in {"hdr_row", "pos_row"}
  /\ RowsLeft(outfs[tmpp])
  /\ LET n   == outfs[tmpp].rows
         rec == Records(Scheme)[n + 1]
     IN /\ outfs' = [outfs EXCEPT ![tmpp] =
                       [@ EXCEPT !.rows = IF ~cfg.json_lines /\ n > 0 THEN n ELSE n + 1,
                                 !.text = @ \o WriteFirst(cfg.json_lines, n, rec)]]
        /\ wpc' = IF ~TwoWrites(cfg.json_lines, n) THEN wpc
                  ELSE IF wpc = "hdr_row" THEN "hdr_part" ELSE "pos_part"
  /\ hist' = [hist EXCEPT !.jobWrites = @ + 1]
  /\ UNCHANGED <<cfg, queue, cur, last, stable, attempt, outp, tmpp, fh, reader>>
  /\ UNCHANGED <<envVars, debVars, mainVars, pollVars>>

\* _write_json: the second out.write for the row: the "\n" after the line
\* written, or the object after its ","
WriteRowEnd ==
  /\ wpc \in {"hdr_part", "pos_part"}
  /\ LET n == outfs[tmpp].rows
     IN outfs' = [outfs EXCEPT ![tmpp] =
                   IF cfg.json_lines
                   THEN [@ EXCEPT !.text = @ \o WriteSecond(TRUE, Records(Scheme)[n])]
                   ELSE [@ EXCEPT !.rows = n + 1,
                                  !.text = @ \o WriteSecond(FALSE, Records(Scheme)[n + 1])]]
  /\ wpc' = IF wpc = "hdr_part" THEN "hdr_row" ELSE "pos_row"
  /\ hist' = [hist EXCEPT !.jobWrites = @ + 1]
  /\ UNCHANGED <<cfg, queue, cur, last, stable, attempt, outp, tmpp, fh, reader>>
  /\ UNCHANGED <<envVars, debVars, mainVars, pollVars>>

\* _write_json: the rows are exhausted, the closing text is written and
\* the with block closes the file; the call returns and f is closed
WriteClose ==
  /\ wpc \in {"hdr_row", "pos_row"}
  /\ ~RowsLeft(outfs[tmpp])
  /\ ~MoreToRead
  /\ fh' = NoHandle
  /\ outfs' = [outfs EXCEPT ![tmpp] =
                 [@ EXCEPT !.complete = TRUE, !.text = @ \o WriteTail(cfg.json_lines)]]
  /\ wpc' = "replace"
  /\ hist' = [hist EXCEPT !.jobWrites = @ + 1]
  /\ UNCHANGED <<cfg, queue, cur, last, stable, attempt, outp, tmpp, reader>>
  /\ UNCHANGED <<envVars, debVars, mainVars, pollVars>>

\* the header-keyed records the job in hand has written when header mode fails
HeaderRowsWritten == IF wpc \in {"hdr_row", "hdr_part"} THEN outfs[tmpp].rows ELSE 0

\* a fallback that goes on writing into the file header mode left behind
HeaderRaiseContinues ==
  /\ wpc \in {"header", "hdr_open", "hdr_row", "hdr_part"}
  /\ wpc' = IF wpc \in {"header", "hdr_open"} THEN "pos_open" ELSE "pos_row"
  /\ reader' = IF wpc \in {"header", "hdr_open"} THEN AfterSeek(reader) ELSE reader
  /\ hist' = [hist EXCEPT !.hdrRows = HeaderRowsWritten]
  /\ UNCHANGED <<cfg, outfs, queue, cur, last, stable, attempt, outp, tmpp, fh>>
  /\ UNCHANGED <<envVars, debVars, mainVars, pollVars>>

\* _convert_file: an exception inside the header-mode try block is caught
\* by "except Exception" and the positional retry begins
HeaderRaise ==
  /\ wpc \in {"header", "hdr_open", "hdr_row", "hdr_part"}
  /\ wpc' = "pos_open"
  /\ reader' = AfterSeek(reader)
  /\ hist' = [hist EXCEPT !.hdrRows = HeaderRowsWritten]
  /\ UNCHANGED <<cfg, outfs, queue, cur, last, stable, attempt, outp, tmpp, fh>>
  /\ UNCHANGED <<envVars, debVars, mainVars, pollVars>>

\* _convert_file: os.replace(tmp_path, out_path); the job is done
ConvertReplace ==
  /\ wpc = "replace"
  /\ outfs' = RemoveFile(PutFile(outfs, outp, outfs[tmpp]), tmpp)
  /\ JobEnd([hist EXCEPT !.jobWrites = @ + 1, !.conv[cur] = @ + 1,
                          !.done[cur] = @ + 1], "done")
  /\ UNCHANGED <<cfg, queue>>
  /\ UNCHANGED <<envVars, debVars, mainVars, pollVars>>

\* the states of a job in which a call can raise into _worker_main
RaiseStates == JobStates \ {"header", "hdr_open", "hdr_row", "hdr_part"}

\* an exception that is not caught ends the worker thread
JobRaiseUncaught ==
  /\ wpc \in RaiseStates
  /\ wpc' = "dead"
  /\ hist' = Ended(hist, "failed")
  /\ UNCHANGED <<cfg, outfs, queue, cur, last, stable, attempt, outp, tmpp, fh, reader>>
  /\ UNCHANGED <<envVars, debVars, mainVars, pollVars>>

\* _worker_main: an exception of _wait_stable or _convert_file reaches
\* "except Exception", is logged, and the loop goes on
JobRaise ==
  /\ wpc \in RaiseStates
  /\ JobEnd(hist, "failed")
  /\ UNCHANGED <<cfg, outfs, queue>>
  /\ UNCHANGED <<envVars, debVars, mainVars, pollVars>>

WorkerNext ==
  \/ WorkerLoop \/ WorkerGet \/ WorkerGetTimeout
  \/ WaitStableInit \/ WaitStablePoll
  \/ ConvertResolve \/ ConvertOpen \/ ConvertHeader \/ WriteOpen
  \/ ReadChunk \/ WriteRow \/ WriteRowEnd \/ WriteClose
  \/ HeaderRaise \/ ConvertReplace \/ JobRaise

(***************************************************************************)
(* Specifications                                                          *)
(***************************************************************************)
TimerNext == \E t \in DOMAIN timers : TimerExpire(t) \/ TimerRun(t) \/ TimerAction(t)

MainNext == MainStart \/ (\E p \in Paths : MainEmit(p)) \/ MainList \/ MainWatch

\* one signal, taken between two calls of put, and the handler's steps
StopNext == Shutdown \/ StopSet \/ StopPut \/ StopJoin

\* the polling thread while no stop is requested, and with its exit
PollScan ==
  PollBegin \/ (\E p \in Paths : PollVisit(p)) \/ PollEnqueue \/ PollList \/ PollSleep

PollNext == PollScan \/ PollExit

\* The watchdog configuration without the startup scan, every thread of it:
\* the main thread, the observer's handler, one thread per debounce timer
\* and the worker, while other programs write files; no signal is sent.
InitDebounce ==
  InitState(Config(TRUE, FALSE, FALSE, TRUE, FALSE),
            [p \in {PathA, PathDot} |-> NoFile], EmptyDir, DebounceWrites)

NextDebounce ==
  \/ Tick
  \/ \E p \in Paths : EnvWrite(p, 2)
  \/ MainStart
  \/ HandleEvent
  \/ TimerNext
  \/ WorkerNext

SpecDebounce == InitDebounce /\ [][NextDebounce]_vars

(***************************************************************************)
(* Properties of the Debouncer                                             *)
(***************************************************************************)
Eligible(p) == is_csv(p) /\ ~is_probably_temp(p)

\* timers of p that are registered work: started, not cancelled, and not yet
\* through the pop of _run
LiveTimers(p) ==
  {t \in DOMAIN timers : timers[t].path = p /\ timers[t].st \in {"waiting", "fired"}}

\* timers of p that have yet to call the action
PendingTimers(p) ==
  {t \in DOMAIN timers : timers[t].path = p
                         /\ timers[t].st \in {"waiting", "fired", "popped"}}

\* C1 (as claimed): every path has at most one live debounce timer, and a
\* map entry for the path refers to that timer; a timer that trigger found
\* registered and cancelled never goes on to call the action.
C1_OneLiveTimerPerPath ==
  \A p \in Paths :
    /\ Cardinality(LiveTimers(p)) <= 1
    /\ tmap[p] # 0 => LiveTimers(p) = {tmap[p]}

\* every trigger so far for p came less than the debounce delay after the first
Burst(p) ==
  /\ hist.nTrig[p] >= 1
  /\ hist.lastTrig[p] - hist.firstTrig[p] < Delay

\* C2: N >= 1 triggers for one eligible, existing path, all within less than
\* the debounce delay, put exactly one job for it on the queue: never more
\* than one, and one as soon as no timer of the path is pending.
C2_BurstYieldsOneJob ==
  \A p \in Paths :
    (Eligible(p) /\ files[p].exists /\ Burst(p)) =>
      /\ hist.puts[p] <= 1
      /\ PendingTimers(p) = {} => hist.puts[p] = 1

C2_Witness ==
  /\ hist.nTrig[PathA] >= 2
  /\ Burst(PathA)
  /\ PendingTimers(PathA) = {}
  /\ hist.puts[PathA] = 1

\* C3 (as claimed): a timer calls action(P) only when at least the debounce
\* delay has passed since the most recent trigger(P).
C3_ActionOnlyAfterQuietDelay ==
  [][\A t \in DOMAIN timers :
       (timers[t].st = "popped" /\ timers'[t].st = "finished")
         => now >= hist.lastTrig[timers[t].path] + Delay]_vars

\* The polling configuration with the startup scan: main thread, polling
\* thread, worker thread, and other programs writing the watched files; no
\* signal is sent.
Init ==
  \E ow \in BOOLEAN :
    \E o \in {EmptyDir, PutFile(EmptyDir, OutNameOf(PathA), OldDoc),
                        PutFile(EmptyDir, Candidate(OutNameOf(PathA), 1), OldDoc)} :
      InitState(Config(FALSE, TRUE, ow, TRUE, FALSE),
                [p \in {PathA} |-> OldFile(2)], o, ConvertWrites)

Next ==
  \/ \E p \in Paths : \E sz \in 0..MaxSize : EnvWrite(p, sz)
  \/ \E p \in Paths : EnvDelete(p)
  \/ MainNext
  \/ PollerStart
  \/ PollScan
  \/ WorkerNext

Spec == Init /\ [][Next]_vars

\* The watchdog configuration with the startup scan over three files of
\* one name in different directories (all convert to a.json): the main
\* thread and the worker, while other programs may delete the file in the
\* watch directory itself (a deletion raises no event the handler takes, so
\* the observer has nothing to report); no signal is sent.  The output
\* directory starts empty or holds a document of an earlier run, and
\* overwrite is on or off.
InitConvert ==
  \E ow \in BOOLEAN :
    \E o \in {EmptyDir, PutFile(EmptyDir, OutNameOf(PathA), OldDoc),
                        PutFile(EmptyDir, Candidate(OutNameOf(PathA), 1), OldDoc)} :
      InitState(Config(TRUE, TRUE, ow, TRUE, FALSE),
                [p \in {PathA, PathSubA, PathDeepA} |-> OldFile(2)], o, SourceEdits)

NextConvert ==
  \/ EnvDelete(PathA)
  \/ MainNext
  \/ WorkerNext

SpecConvert == InitConvert /\ [][NextConvert]_vars

\* Both configurations with the startup scan, every thread of them, over
\* names of every kind: the main thread, the observer's handler with the
\* debounce timers or the polling thread, and the worker; no signal is sent.
FilterPaths ==
  {PathA, PathUpper, PathDot, PathLock, PathTmp, PathPart, PathTxt}

InitFilter ==
  \E w \in BOOLEAN :
    InitState(Config(w, TRUE, FALSE, TRUE, FALSE),
              [p \in FilterPaths |-> OldFile(2)], EmptyDir, FilterWrites)

NextFilter ==
  \/ Tick
  \/ \E p \in Paths : EnvWrite(p, 2)
  \/ MainNext
  \/ HandleEvent
  \/ TimerNext
  \/ PollerStart
  \/ PollScan
  \/ WorkerNext

SpecFilter == InitFilter /\ [][NextFilter]_vars

\* a file name the claim excludes: an excluded prefix, an excluded suffix,
\* or an extension other than .csv in any letter case
Excluded(name) ==
  \/ StartsWith(name, <<".", "~">>)
  \/ StartsWith(name, <<"~", "$">>)
  \/ StartsWith(name, <<".">>)
  \/ EndsWith(name, <<".", "t", "m", "p">>)
  \/ EndsWith(name, <<".", "p", "a", "r", "t", "i", "a", "l">>)
  \/ EndsWith(name, <<".", "p", "a", "r", "t">>)
  \/ EndsWith(name, <<".", "c", "r", "d", "o", "w", "n", "l", "o", "a", "d">>)
  \/ ~EndsWith(LowerStr(name), <<".", "c", "s", "v">>)

\* C6: no notification, polling scan or startup scan puts a path with an
\* excluded name on the worker queue: every queued path is eligible.
C6_QueueHoldsEligibleOnly ==
  \A i \in DOMAIN queue : queue[i] # Sentinel => ~Excluded(queue[i].name)

\* the debouncer has handed a dot-file to enqueue, which left it out, and
\* a.csv is queued
C6_Witness ==
  /\ \E t \in DOMAIN timers : timers[t].path = PathDot /\ timers[t].st = "finished"
  /\ \E i \in DOMAIN queue : queue[i] = PathA

(***************************************************************************)
(* Properties of the conversion                                            *)
(***************************************************************************)
\* a name of the output directory that is not a temporary sibling
IsFinal(n) == ~EndsWith(n, <<".", "t", "m", "p">>)

FinalNames(fs) == {n \in DOMAIN fs : IsFinal(n)}

\* C4: a final output path never holds a partially written document, and
\* it is created or altered only by the rename of a temporary file whose
\* write returned without error; a step that fails leaves every final
\* output file as it was.
C4_FinalNeverPartial ==
  /\ [](\A n \in FinalNames(outfs) : outfs[n].complete)
  /\ [][/\ FinalNames(outfs) \subseteq FinalNames(outfs')
        /\ \A n \in FinalNames(outfs') :
             (n \notin DOMAIN outfs \/ outfs'[n] # outfs[n]) =>
               /\ wpc = "replace" /\ wpc' = "loop" /\ hist'.result = "done"
               /\ n = outp
               /\ tmpp \in DOMAIN outfs /\ outfs[tmpp].complete
               /\ outfs'[n] = outfs[tmpp]]_vars

C4_Witness ==
  /\ \E n \in FinalNames(outfs) : outfs[n].src \in Paths
  /\ \E m \in DOMAIN outfs : ~outfs[m].complete
  /\ hist.failed > 0

\* C5 (as claimed): a file that no longer changes is converted at most
\* once, whichever sources report it: no path has two conversions since
\* its last write.
C5_SettledFileConvertedOnce == \A p \in Paths : hist.conv[p] <= 1

\* the i-th name the claim gives for a.csv: a.json, a_1.json, a_2.json, ...
NthName(i) ==
  IF i = 0 THEN <<"a", ".", "j", "s", "o", "n">>
           ELSE <<"a", "_">> \o Str(i) \o <<".", "j", "s", "o", "n">>

\* names held by files this run did not write
ForeignNames == {n \in FinalNames(outfs) : outfs[n].src \notin Paths}

\* the number of conversions that have succeeded
RECURSIVE DoneIn(_)
DoneIn(S) ==
  IF S = {} THEN 0
  ELSE LET p == CHOOSE q \in S : TRUE IN hist.done[p] + DoneIn(S \ {p})

Conversions == DoneIn(Paths)

\* the indices of the first k names of the sequence that no foreign file holds
FirstFree(k) ==
  {i \in 0..(k + Cardinality(ForeignNames)) :
     /\ NthName(i) \notin ForeignNames
     /\ Cardinality({j \in 0..(i-1) : NthName(j) \notin ForeignNames}) < k}

\* C9: with overwrite disabled the resolved name is the base name if no
\* file has it, else name_i for the smallest i >= 1 that no file has; so k
\* conversions of sources named a.csv have produced k distinct files, on
\* the first k names of a.json, a_1.json, a_2.json, ... that no other file
\* holds (a.json, a_1.json, ..., a_(k-1).json when none is held).
C9_UniqueOutputNames ==
  /\ [](~cfg.overwrite =>
          FinalNames(outfs) \ ForeignNames
            = {NthName(i) : i \in FirstFree(Conversions)})
  /\ [][(wpc = "resolve" /\ wpc' = "open" /\ ~cfg.overwrite) =>
          \E i \in 0..Cardinality(DOMAIN outfs) :
             /\ outp' = NthName(i)
             /\ outp' \notin DOMAIN outfs
             /\ \A j \in 0..(i-1) : NthName(j) \in DOMAIN outfs]_vars

C9_Witness ==
  /\ ~cfg.overwrite
  /\ ForeignNames = {}
  /\ Conversions = 3
  /\ FinalNames(outfs) = {NthName(0), NthName(1), NthName(2)}

\* C7: when every one of the 6 polls of a job saw the size change,
\* stability detection has returned failure, the job was skipped, and the
\* job wrote neither an output file nor a temporary file.
C7_AlwaysChangingIsSkipped ==
  (hist.polls = Checks * 2 /\ hist.changedAll) =>
     /\ hist.result = "unstable"
     /\ wpc \notin JobStates
     /\ hist.jobWrites = 0

C7_Witness ==
  /\ hist.polls = Checks * 2
  /\ hist.changedAll
  /\ hist.result = "unstable"

\* The polling configuration without the startup scan: the main thread,
\* the polling thread and the worker, while other programs keep rewriting
\* and deleting the file: the environment may write between all the polls
\* of a job.  No signal is sent.
InitStability ==
  InitState(Config(FALSE, FALSE, TRUE, TRUE, FALSE),
            [p \in {PathA} |-> OldFile(2)], EmptyDir, StabilityWrites)

NextStability ==
  \/ \E p \in Paths : \E sz \in 0..MaxSize : EnvWrite(p, sz)
  \/ \E p \in Paths : EnvDelete(p)
  \/ MainStart
  \/ PollerStart
  \/ PollScan
  \/ WorkerNext

SpecStability == InitStability /\ [][NextStability]_vars

(***************************************************************************)
(* Worker loop: failures and shutdown                                      *)
(***************************************************************************)
\* The watchdog configuration with the startup scan and one shutdown signal
\* that may arrive at any time, also while the main thread is inside a call
\* of put, while other programs only delete files (a deletion raises no
\* event the handler takes).
InitShutdown ==
  InitState(Config(TRUE, TRUE, TRUE, TRUE, FALSE),
            [p \in {PathA, PathSubA} |-> OldFile(2)], EmptyDir, ShutdownDeletes)

NextShutdown ==
  \/ \E p \in Paths : EnvDelete(p)
  \/ MainNext
  \/ WorkerNext
  \/ StopNext
  \/ \E p \in Paths, put \in BOOLEAN : ShutdownInPut(p, put)

\* Threads are scheduled: the worker takes a step while it has one (it has
\* none while it waits for the queue's mutex, and none once the process
\* has ended), and the main thread, once in the signal handler, reaches
\* self._stop.set().  Nothing is assumed about when the signal arrives or
\* how long the rest of the handler takes.
SpecShutdown ==
  InitShutdown /\ [][NextShutdown]_vars /\ WF_vars(WorkerNext) /\ WF_vars(StopSet)

\* C8: an exception while stabilizing or converting ends only the job: the
\* worker is back at the head of its loop with the queue untouched, and,
\* unless a stop is requested, the path queued behind the failed job is
\* dequeued and its job started.
C8_FailureEndsOnlyTheJob ==
  /\ [][hist'.failed > hist.failed => (wpc' = "loop" /\ queue' = queue)]_vars
  /\ \A p \in {PathA, PathSubA} :
       (hist.failed > 0 /\ queue # <<>> /\ Head(queue) = p /\ ~stopFlag)
         ~> ((wpc = "stat0" /\ cur = p) \/ stopFlag)

\* a job failed, and a later job has run to its end
C8_Witness ==
  /\ hist.failed > 0
  /\ hist.result = "done"
  /\ ~stopFlag

\* stop() has set the stop signal and pushed the sentinel
SentinelPushed == mpc \in {"join", "exited"}

\* C10: once stop() has set the stop signal and pushed the sentinel, the
\* worker leaves its loop when the job in flight has ended (a job that the
\* end of the process cuts short has not ended); and a worker that is in get
\* while the stop signal is set does not stay there for want of an item: it
\* takes one or its wait times out, once it has the queue's mutex.
C10_StopEndsWorker ==
  /\ SentinelPushed ~> (wpc = "exited" \/ (wpc = "killed" /\ cur # Sentinel))
  /\ (stopFlag /\ wpc = "get") ~> (wpc # "get" \/ qlock)

\* a file was converted, stop() has pushed the sentinel, the queue is
\* drained and the worker has left its loop; the process has not ended yet
C10_Witness ==
  /\ mpc = "join"
  /\ hist.result = "done"
  /\ queue = <<>>
  /\ wpc = "exited"

(***************************************************************************)
(* One consumer, first in first out                                        *)
(***************************************************************************)
\* The watchdog configuration with every thread: the startup scan of the
\* main thread, the observer's handler, one thread per debounce timer, and
\* the worker, over two files, one of which other programs rewrite.
InitOrder ==
  InitState(Config(TRUE, TRUE, FALSE, TRUE, FALSE),
            [p \in {PathA, PathSubA} |-> OldFile(2)], EmptyDir, OrderWrites)

NextOrder ==
  \/ Tick
  \/ EnvWrite(PathA, 1)
  \/ MainNext
  \/ HandleEvent
  \/ TimerNext
  \/ WorkerNext

SpecOrder == InitOrder /\ [][NextOrder]_vars

\* C11: one consumer holds at most one path at a time (a path is in hand
\* exactly while the worker is stabilizing or converting it, and a job
\* starts only when none is in hand), and jobs start in the order of the
\* puts: every step that changes the queue appends one path at its tail
\* or removes its head, and the job that starts takes the head.
C11_OneConsumerInOrder ==
  /\ []((wpc \in JobStates) = (cur # Sentinel))
  /\ [][/\ queue' # queue =>
             \/ \E p \in Paths : queue' = Append(queue, p)
             \/ queue # <<>> /\ queue' = Tail(queue) /\ wpc = "get"
        /\ cur' # cur /\ cur' # Sentinel =>
             /\ cur = Sentinel /\ wpc = "get" /\ wpc' = "stat0"
             /\ queue # <<>> /\ cur' = Head(queue) /\ queue' = Tail(queue)]_vars

\* a job is in hand while two different paths wait behind it, the second
\* put by a debounce timer
C11_Witness ==
  /\ wpc \in JobStates
  /\ Len(queue) >= 2
  /\ queue[1] # queue[2]
  /\ \E t \in DOMAIN timers : timers[t].st = "finished"

(***************************************************************************)
(* Files that exist before startup                                         *)
(***************************************************************************)
\* Either configuration without --process-existing, every thread of it:
\* the main thread, the observer's handler with the debounce timers or the
\* polling thread, the worker and the signal handler, over two files that
\* exist at startup and that other programs may rewrite.
InitExisting ==
  \E w \in BOOLEAN :
    InitState(Config(w, FALSE, FALSE, TRUE, FALSE),
              [p \in {PathA, PathSubA} |-> OldFile(2)], EmptyDir, ExistingWrites)

NextExisting ==
  \/ Tick
  \/ \E p \in Paths : EnvWrite(p, 2)
  \/ MainStart
  \/ HandleEvent
  \/ TimerNext
  \/ PollerStart
  \/ PollNext
  \/ WorkerNext
  \/ StopNext

SpecExisting == InitExisting /\ [][NextExisting]_vars

\* C12 (as claimed): without --process-existing a file that existed at
\* startup and has not been written since is never put on the queue, in
\* watchdog mode and in polling mode alike.
C12_ExistingNeverEnqueued ==
  \A p \in Paths :
    (~cfg.process_existing /\ files[p].exists /\ files[p].mtime = 0) =>
      \A i \in DOMAIN queue : queue[i] # p

(***************************************************************************)
(* The content of a conversion                                             *)
(***************************************************************************)
\* the CSV texts a job is run on
Texts == {Canon(0), Canon(3), TextEmptyCell, TextBlankCell, TextBlankLine,
          TextOneColumn, TextQuotedColumn, TextShortRow, TextSemicolon, TextQuoted,
          TextCRLF}

\* The watchdog configuration with the startup scan over one file, for
\* every text, both output modes and every setting of --delimiter and
\* --quotechar: the main thread and the worker.  No other program touches
\* the file, so the observer has no event to report, and no signal is sent.
InitContent ==
  \E t \in Texts : \E jl \in BOOLEAN :
    \E d \in {None, ",", ";"} : \E q \in {None, "\"", "'"} :
      InitState([Config(TRUE, TRUE, FALSE, TRUE, jl)
                   EXCEPT !.delimiter = d, !.quotechar = q],
                [p \in {PathA} |-> File(t, 0)], EmptyDir, 0)

NextContent ==
  \/ MainNext
  \/ WorkerNext

SpecContent == InitContent /\ [][NextContent]_vars

\* the published documents of this run
Published == {n \in FinalNames(outfs) : outfs[n].src \in Paths}

\* {"a":"1","b":"2"} and {"a":"3","b":"4"}
CompactRow12 ==
  <<"{", "\"", "a", "\"", ":", "\"", "1", "\"", ",",
         "\"", "b", "\"", ":", "\"", "2", "\"", "}">>

CompactRow34 ==
  <<"{", "\"", "a", "\"", ":", "\"", "3", "\"", ",",
         "\"", "b", "\"", ":", "\"", "4", "\"", "}">>

\* C13 (as claimed): the conversion of "a,b\n1,2\n3,4\n" publishes exactly
\* [{"a":"1","b":"2"},{"a":"3","b":"4"}] in array mode, and in
\* line-delimited mode exactly the two compact objects, one per line.
C13_CompactLiteral ==
  \A n \in Published :
    (files[PathA].text = Canon(3) /\ cfg.delimiter = None /\ cfg.quotechar = None
       /\ outfs[n].scheme = "hdr") =>
      outfs[n].text = IF cfg.json_lines
                      THEN CompactRow12 \o <<NL>> \o CompactRow34 \o <<NL>>
                      ELSE <<"[">> \o CompactRow12 \o <<",">> \o CompactRow34 \o <<"]">>

\* the delimiter in use for the file of the job
DelimiterInUse(p) == ResolveDelimiter(cfg, SniffedDialect(cfg, files[p].text))

\* the first line of a text, without its line end
RECURSIVE FirstLine(_)
FirstLine(text) ==
  IF text = <<>> \/ IsEOL(Head(text)) THEN <<>> ELSE <<Head(text)>> \o FirstLine(Tail(text))

\* whether a line cut at every delimiter d has a blank piece
RECURSIVE HasBlankPiece(_, _, _)
HasBlankPiece(line, d, piece) ==
  IF line = <<>> THEN Blank(piece)
  ELSE IF Head(line) = d THEN Blank(piece) \/ HasBlankPiece(Tail(line), d, <<>>)
  ELSE HasBlankPiece(Tail(line), d, Append(piece, Head(line)))

\* the claim's condition on the file of the job: there is no first row, or
\* a cell of the first line is empty or blank (an empty first line is one
\* empty cell; the cells of the header lines in Texts are the pieces between
\* delimiters, none being a quoted empty cell)
HeaderRejected(p) ==
  \/ files[p].text = <<>>
  \/ HasBlankPiece(FirstLine(files[p].text), DelimiterInUse(p), <<>>)

\* the record of row r keyed col1, col2, ... by column position
ColRecord(r) == [j \in DOMAIN r |-> <<JStr(<<"c", "o", "l">> \o Str(j)), JStr(r[j])>>]

\* [{"col1": "", "col2": "b"},{"col1": "1", "col2": "2"}]
EmptyCellJson ==
  <<"[", "{", "\"", "c", "o", "l", "1", "\"", ":", " ", "\"", "\"", ",", " ",
              "\"", "c", "o", "l", "2", "\"", ":", " ", "\"", "b", "\"", "}", ",",
         "{", "\"", "c", "o", "l", "1", "\"", ":", " ", "\"", "1", "\"", ",", " ",
              "\"", "c", "o", "l", "2", "\"", ":", " ", "\"", "2", "\"", "}", "]">>

\* C14: the header test rejects header mode exactly when the file has no
\* first row or a header cell is empty or blank (an exception in header
\* mode is a failure, not a rejection); the document then published holds one
\* record for every row from the start of the file, the first included,
\* keyed col1, col2, ... by 1-based column position.
C14_HeaderRejectedToPositional ==
  /\ [][ConvertHeader => ((wpc' = "pos_open") = HeaderRejected(cur))]_vars
  /\ [](\A n \in Published :
          HeaderRejected(outfs[n].src) =>
            LET rows == Parse(files[outfs[n].src].text, DelimiterInUse(outfs[n].src),
                              ResolveQuotechar(cfg, SniffedDialect(cfg, files[outfs[n].src].text)))
            IN /\ outfs[n].scheme = "pos"
               /\ outfs[n].rows = Len(rows)
               /\ outfs[n].text =
                    WriteJson(cfg.json_lines, [i \in DOMAIN rows |-> ColRecord(rows[i])]))

\* ",b\n1,2\n" was converted in array mode
C14_Witness ==
  /\ files[PathA].text = TextEmptyCell
  /\ ~cfg.json_lines
  /\ \E n \in Published : outfs[n].text = EmptyCellJson

\* the claim's rule for one setting: the override if there is one, else
\* the value sniffed from the sample if sniffing it succeeds, else the
\* default
RuleDelimiter(p) ==
  IF ~Falsy(cfg.delimiter) THEN cfg.delimiter
  ELSE IF Sniff(files[p].text).ok THEN Sniff(files[p].text).delimiter
  ELSE ","

RuleQuotechar(p) ==
  IF ~Falsy(cfg.quotechar) THEN cfg.quotechar
  ELSE IF Sniff(files[p].text).ok THEN Sniff(files[p].text).quotechar
  ELSE "\""

\* the records of a document's scheme over the given rows
SchemeRecords(scheme, rows) ==
  IF scheme = "hdr" THEN HeaderRecords(rows) ELSE PositionalRecords(rows)

\* C15 (as claimed): delimiter and quote character each follow the rule
\* override, else sniffed, else default, independently of each other: a
\* published document is the conversion of its file under the delimiter
\* and the quote character the rule gives.
C15_DialectRulePerSetting ==
  \A n \in Published :
    outfs[n].text =
      WriteJson(cfg.json_lines,
                SchemeRecords(outfs[n].scheme,
                              Parse(files[outfs[n].src].text,
                                    RuleDelimiter(outfs[n].src),
                                    RuleQuotechar(outfs[n].src))))

\* C16: a job whose sniffing fails with neither setting configured, like a
\* job with comma and double-quote configured, publishes the conversion
\* of its file under comma and double-quote; and the failed sniffing does
\* not stop the job: the step that opens and sniffs the file goes on to
\* the conversion.
C16_SniffFailureIsDefault ==
  /\ \A n \in Published :
       LET text == files[outfs[n].src].text
       IN (\/ Falsy(cfg.delimiter) /\ Falsy(cfg.quotechar) /\ ~Sniff(text).ok
           \/ cfg.delimiter = "," /\ cfg.quotechar = "\"") =>
            outfs[n].text =
              WriteJson(cfg.json_lines,
                        SchemeRecords(outfs[n].scheme, Parse(text, ",", "\"")))
  /\ (/\ wpc = "open" /\ files[cur].exists
      /\ Falsy(cfg.delimiter) /\ Falsy(cfg.quotechar)
      /\ ~Sniff(files[cur].text).ok) => ENABLED ConvertOpen

\* "a\n\"1,x\"\n", on which sniffing fails, was converted with nothing
\* configured, to [{"a": "1,x"}]
C16_Witness ==
  /\ files[PathA].text = TextQuotedColumn
  /\ cfg.delimiter = None /\ cfg.quotechar = None /\ ~cfg.json_lines
  /\ \E n \in Published :
       outfs[n].text = <<"[", "{", "\"", "a", "\"", ":", " ",
                         "\"", "1", ",", "x", "\"", "}", "]">>

(***************************************************************************)
(* Stability detection: the sizes a job sampled                            *)
(***************************************************************************)
\* the polls of the job in hand, or of the last one that was skipped
NPolls == Len(hist.samples) - 1

\* the k-th poll found the file, with the size of the sample before it
PollSame(k) ==
  /\ hist.samples[k + 1] # -1
  /\ hist.samples[k + 1] = hist.samples[k]

\* the k-th poll is the last of Checks polls in a row that saw no change
RunEndsAt(k) == k >= Checks /\ \A j \in (k - Checks + 1)..k : PollSame(j)

\* the unchanged polls in a row that end with the k-th
RECURSIVE TrailRun(_)
TrailRun(k) == IF k = 0 \/ ~PollSame(k) THEN 0 ELSE 1 + TrailRun(k - 1)

\* C17: stability detection returns success at the first poll that is the
\* third in a row to see the size of the sample before it, within 6 polls;
\* while it polls its counter is the length of the run of unchanged polls
\* that ends with the last one, so a change sets it to zero; it returns
\* failure only with no such run, at a missing file or after the 6th poll.
C17_StableExactlyOnThreeInARow ==
  /\ NPolls <= Checks * 2
  /\ wpc = "resolve" =>
        /\ RunEndsAt(NPolls)
        /\ \A k \in 1..(NPolls - 1) : ~RunEndsAt(k)
  /\ wpc = "poll" =>
        /\ NPolls < Checks * 2
        /\ NPolls = attempt
        /\ \A k \in 1..NPolls : ~RunEndsAt(k)
        /\ stable = TrailRun(NPolls)
        /\ last = hist.samples[NPolls + 1]
  /\ (hist.result = "unstable" /\ wpc \notin JobStates) =>
        /\ \A k \in 1..NPolls : ~RunEndsAt(k)
        /\ \/ hist.samples[NPolls + 1] = -1
           \/ NPolls = Checks * 2

\* success at the 6th poll, three polls after one that saw a change
C17_Witness ==
  /\ wpc = "resolve"
  /\ NPolls = Checks * 2
  /\ ~PollSame(Checks)

(***************************************************************************)
(* Conversion: one field-naming scheme per document                        *)
(***************************************************************************)
\* the rows csv.reader yields for the file at p
RowsOf(p) ==
  LET dialect == SniffedDialect(cfg, files[p].text)
  IN Parse(files[p].text, ResolveDelimiter(cfg, dialect), ResolveQuotechar(cfg, dialect))

\* piece occurs in text
Contains(text, piece) ==
  \E i \in 0..(Len(text) - Len(piece)) : SubSeq(text, i + 1, i + Len(piece)) = piece

\* C18: a published document is written in one scheme, header-keyed or
\* positional; when header mode failed after it had written header-keyed
\* records, the retry writes the temporary file from empty, and the
\* published document is the positional one: a record for every row of the
\* file and no header-keyed record.
C18_OneSchemePerDocument ==
  /\ \A n \in Published :
       LET rows == RowsOf(outfs[n].src)
           hdrs == HeaderRecords(rows)
       IN /\ outfs[n].text \in {WriteJson(cfg.json_lines, hdrs),
                                 WriteJson(cfg.json_lines, PositionalRecords(rows))}
          /\ hist.hdrRows > 0 =>
                /\ outfs[n].text = WriteJson(cfg.json_lines, PositionalRecords(rows))
                /\ outfs[n].rows = Len(rows)
                /\ \A i \in DOMAIN hdrs : ~Contains(outfs[n].text, Dumps(hdrs[i]))
  /\ (wpc = "pos_row" /\ hist.hdrRows > 0) =>
       outfs[tmpp].text = WriteHead(cfg.json_lines)
                            \o WriteItems(cfg.json_lines, PositionalRecords(SourceRows),
                                          outfs[tmpp].rows)

\* a document published after header mode had written records and failed
C18_Witness ==
  /\ hist.hdrRows > 0
  /\ \E n \in Published :
       outfs[n].text = WriteJson(cfg.json_lines, PositionalRecords(RowsOf(outfs[n].src)))

(***************************************************************************)
(* Output naming: existing documents are left alone                        *)
(***************************************************************************)
\* the final documents converted from the source p
OutputsOf(p) == {n \in FinalNames(outfs) : outfs[n].src = p}

\* C19: with overwrite disabled the name a job resolved is still free when
\* its rename publishes onto it, no step replaces, alters or removes a final
\* output file that exists, and every conversion of a source has a final
\* file of its own, so sources of one name in different directories end up
\* in distinct files.
C19_ExistingFinalUntouched ==
  /\ []((~cfg.overwrite /\ wpc = "replace") => outp \notin DOMAIN outfs)
  /\ [][~cfg.overwrite =>
          \A n \in FinalNames(outfs) : n \in DOMAIN outfs' /\ outfs'[n] = outfs[n]]_vars
  /\ [](~cfg.overwrite =>
          \A p \in Paths : Cardinality(OutputsOf(p)) = hist.done[p])

\* two sources named a.csv published beside a document of an earlier run
C19_Witness ==
  /\ ~cfg.overwrite
  /\ OutNameOf(PathA) \in DOMAIN outfs
  /\ outfs[OutNameOf(PathA)] = OldDoc
  /\ OutputsOf(PathSubA) # {}
  /\ OutputsOf(PathDeepA) # {}

(***************************************************************************)
(* Shutdown: jobs begun after the stop signal                              *)
(***************************************************************************)
\* C20 (as claimed): once stop() has set the stop signal the worker begins
\* no new job: no step taken while the signal is set moves a path from the
\* queue into stabilizing.
C20_NoNewJobAfterStop ==
  [][stopFlag => ~(wpc = "get" /\ wpc' = "stat0")]_vars

====
